---- MODULE Spec2Model ----
(***************************************************************************)
(* Authentication and refresh-token lifecycle of the Sipfinity backend     *)
(* (internal/services/auth.go, utils JWT helpers, models User /            *)
(* RefreshToken / PasswordResetToken).                                     *)
(*                                                                         *)
(* Each request handler is a process; every statement against the store    *)
(* (a gorm call) is one atomic step, the pure code around it belongs to    *)
(* the step of the store call that follows it.  A store call may fail      *)
(* (connection loss, timeout); the code decides what happens then.         *)
(* Time is counted in whole seconds, the precision of the JWT NumericDate  *)
(* claims and of time.Unix(sec, 0).                                        *)
(***************************************************************************)
EXTENDS Integers, Sequences, FiniteSets, TLC

VARIABLES
    users,      \* table users: sequence indexed by primary key
    rts,        \* table refresh_tokens: sequence indexed by primary key
    prts,       \* table password_reset_tokens: sequence indexed by primary key
    now,        \* wall clock, seconds
    ctx,        \* per request handler: operation, position, arguments, locals, result
    ret,        \* the response a handler gave in the step just taken, if it gave one
    env,        \* environment counters: calls admitted, faults injected, clock ticks, random draws
    hist        \* history of what callers have observed (used only to state properties)

vars == <<users, rts, prts, now, ctx, ret, env, hist>>

-----------------------------------------------------------------------------
(* Bounds of the model *)

MaxCalls == 3        \* requests that get past their first step in one behaviour
MaxTicks == 2        \* clock advances in one behaviour
MaxFaults == 1       \* store calls that fail in one behaviour

Procs == {"h1", "h2"}
HandlerNo == [p \in Procs |-> IF p = "h1" THEN 1 ELSE 2]

-----------------------------------------------------------------------------
(* Program constants *)

AccessTTL == 900         \* 15 * time.Minute
RefreshTTL == 604800     \* 7 * 24 * time.Hour
ResetTTL == 3600         \* 1 * time.Hour
MinPasswordLen == 8

-----------------------------------------------------------------------------
(* Input alphabets *)

Letters == {"a", "b", "c", "d", "m", "o", "x", "A", "B"}
Digits == {"0", "1"}
LocalChars == Letters \cup Digits \cup {".", "_", "%", "+", "-"}
DomainChars == Letters \cup Digits \cup {".", "-"}
SpaceChars == {" "}

EmailA == <<"a", "@", "b", ".", "c", "o">>
EmailB == <<"x", "@", "b", ".", "c", "o">>
EmailC == <<"c", "@", "b", ".", "c", "o">>
EmailBad == <<"a", "@", "b">>
Emails == {EmailA, EmailB, EmailC, EmailBad}

\* A password is known by its content and its length in bytes.
PwdA == [id |-> "password1", len |-> 9]
PwdB == [id |-> "password2", len |-> 9]
PwdShort == [id |-> "short", len |-> 5]
Passwords == {PwdA, PwdB, PwdShort}

\* The requests the model sends.  ev and ph are the answers the external
\* validation service gives for the email and for the phone number
\* ("unavailable": the service was constructed without one; "none": no phone
\* number in the request).
SignupRequests ==
    { [email |-> EmailA, pwd |-> PwdA, role |-> "", ev |-> "valid", ph |-> "none"],
      [email |-> EmailB, pwd |-> PwdA, role |-> "admin", ev |-> "valid", ph |-> "valid"],
      [email |-> EmailBad, pwd |-> PwdA, role |-> "", ev |-> "valid", ph |-> "none"],
      [email |-> EmailB, pwd |-> PwdShort, role |-> "", ev |-> "valid", ph |-> "none"],
      [email |-> EmailB, pwd |-> PwdA, role |-> "", ev |-> "invalid", ph |-> "none"],
      [email |-> EmailB, pwd |-> PwdA, role |-> "", ev |-> "unavailable", ph |-> "none"],
      [email |-> EmailB, pwd |-> PwdA, role |-> "", ev |-> "valid", ph |-> "error"],
      [email |-> EmailB, pwd |-> PwdA, role |-> "root", ev |-> "valid", ph |-> "none"] }

LoginRequests ==
    { [email |-> EmailA, pwd |-> PwdA, admin |-> FALSE],
      [email |-> EmailA, pwd |-> PwdB, admin |-> FALSE],
      [email |-> EmailA, pwd |-> PwdA, admin |-> TRUE],
      [email |-> EmailB, pwd |-> PwdA, admin |-> TRUE],
      [email |-> EmailC, pwd |-> PwdA, admin |-> FALSE],
      [email |-> EmailBad, pwd |-> PwdA, admin |-> FALSE] }

-----------------------------------------------------------------------------
(* utils: validation helpers *)

\* ^[a-zA-Z0-9._%+-]+@[a-zA-Z0-9.-]+\.[a-zA-Z]{2,}$
IsValidEmail(e) ==
    \E i \in 1..Len(e), j \in 1..Len(e) :
        /\ e[i] = "@"
        /\ i > 1
        /\ \A k \in 1..(i-1) : e[k] \in LocalChars
        /\ e[j] = "."
        /\ j > i + 1
        /\ \A k \in (i+1)..(j-1) : e[k] \in DomainChars
        /\ Len(e) - j >= 2
        /\ \A k \in (j+1)..Len(e) : e[k] \in Letters

\* IsValidEmail on the addresses the model sends, evaluated once.
EmailFormatOk == [e \in Emails |-> IsValidEmail(e)]

IsValidPassword(p) == p.len >= MinPasswordLen

IsValidRole(r) == r \in {"admin", "customer"}

RECURSIVE TrimLeft(_)
TrimLeft(s) ==
    IF s # <<>> /\ Head(s) \in SpaceChars THEN TrimLeft(Tail(s)) ELSE s

RECURSIVE TrimRight(_)
TrimRight(s) ==
    IF s # <<>> /\ s[Len(s)] \in SpaceChars
    THEN TrimRight(SubSeq(s, 1, Len(s) - 1))
    ELSE s

\* strings.TrimSpace
SanitizeString(s) == TrimRight(TrimLeft(s))

-----------------------------------------------------------------------------
(* models.User: password hashing *)

\* bcrypt.GenerateFromPassword: the hash is not the password, and only the
\* password it was made from verifies against it.
HashPassword(p) == <<"bcrypt", p.id>>

CheckPassword(u, p) == u.password = HashPassword(p)

-----------------------------------------------------------------------------
(* utils: JWT *)

NoToken == [uid |-> 0, email |-> <<>>, role |-> "", type |-> "none", iat |-> 0, exp |-> 0, sig |-> "none"]
\* A string that is no token signed with the server's secret.
ForgedToken == [uid |-> 1, email |-> EmailA, role |-> "admin", type |-> "refresh", iat |-> 0, exp |-> RefreshTTL, sig |-> "forged"]

\* HS256 over the claims: the same claims in the same second give the same string.
\* An access token that carries the type claim of a refresh token.
GenerateAccessToken_TypedRefresh(uid, email, role, t) ==
    [uid |-> uid, email |-> email, role |-> role, type |-> "refresh",
     iat |-> t, exp |-> t + AccessTTL, sig |-> "hs256"]

GenerateAccessToken(uid, email, role, t) ==
    [uid |-> uid, email |-> email, role |-> role, type |-> "access",
     iat |-> t, exp |-> t + AccessTTL, sig |-> "hs256"]

GenerateRefreshToken(uid, email, role, t) ==
    [uid |-> uid, email |-> email, role |-> role, type |-> "refresh",
     iat |-> t, exp |-> t + RefreshTTL, sig |-> "hs256"]

GenerateTokenPair(uid, email, role, t) ==
    [access |-> GenerateAccessToken(uid, email, role, t),
     refresh |-> GenerateRefreshToken(uid, email, role, t),
     accessExp |-> t + AccessTTL,
     refreshExp |-> t + RefreshTTL]

NoPair == [access |-> NoToken, refresh |-> NoToken, accessExp |-> 0, refreshExp |-> 0]

\* jwt.ParseWithClaims: HMAC signature with the secret, exp after now, nbf not after now.
ValidateToken(tok, t) ==
    /\ tok.sig = "hs256"
    /\ t < tok.exp
    /\ t >= tok.iat

\* The claims ValidateToken returns for a token it accepts.
NoClaims == [UserID |-> 0, Email |-> <<>>, Role |-> "", Type |-> "none"]
TokenClaims(tok, t) ==
    IF ValidateToken(tok, t)
    THEN [UserID |-> tok.uid, Email |-> tok.email, Role |-> tok.role, Type |-> tok.type]
    ELSE NoClaims

-----------------------------------------------------------------------------
(* The store *)

NoUser == [id |-> 0, email |-> <<>>, password |-> <<>>, role |-> "", active |-> FALSE, profile |-> ""]
NoRec == 0

UserIds == 1..Len(users)
RtIds == 1..Len(rts)
PrtIds == 1..Len(prts)

\* First() of a query: the matching row with the smallest primary key, 0 when none.
FirstOf(S) == IF S = {} THEN NoRec ELSE CHOOSE i \in S : \A j \in S : i <= j

\* Where("email = ?", email)
UserByEmail(email) == FirstOf({i \in UserIds : users[i].email = email})

\* Where("email = ? AND is_active = ?", email, true) on the table us
ActiveUserIn(us, email) ==
    FirstOf({i \in DOMAIN us : us[i].email = email /\ us[i].active})

ActiveUserByEmail(email) == ActiveUserIn(users, email)

\* The lookup without its is_active condition.
ActiveUserById_IgnoringActive(id) ==
    FirstOf({i \in UserIds : i = id})

\* Where("id = ? AND is_active = ?", id, true)
ActiveUserById(id) ==
    FirstOf({i \in UserIds : i = id /\ users[i].active})

\* The lookup without its is_revoked condition.
ValidRefreshRecord_IgnoringRevoked(tok) ==
    FirstOf({i \in RtIds : rts[i].token = tok /\ rts[i].expires > now})

\* Where("token = ? AND is_revoked = ? AND expires_at > ?", tok, false, time.Now())
ValidRefreshRecord(tok) ==
    FirstOf({i \in RtIds : rts[i].token = tok /\ ~rts[i].revoked /\ rts[i].expires > now})

\* The Update without its user_id condition.
RevokeAllForUser_Everyone(tbl, uid) ==
    [i \in DOMAIN tbl |-> [tbl[i] EXCEPT !.revoked = TRUE]]

\* Model(&RefreshToken{}).Where("user_id = ?", uid).Update("is_revoked", true)
RevokeAllForUser(tbl, uid) ==
    [i \in DOMAIN tbl |->
        IF tbl[i].user = uid THEN [tbl[i] EXCEPT !.revoked = TRUE] ELSE tbl[i]]

\* The Update on every record of the identity that owns the token.
RevokeByToken_OfItsOwner(tbl, tok) ==
    [i \in DOMAIN tbl |->
        IF \E j \in DOMAIN tbl : tbl[j].token = tok /\ tbl[j].user = tbl[i].user
        THEN [tbl[i] EXCEPT !.revoked = TRUE] ELSE tbl[i]]

\* Model(&RefreshToken{}).Where("token = ?", tok).Update("is_revoked", true)
RevokeByToken(tbl, tok) ==
    [i \in DOMAIN tbl |->
        IF tbl[i].token = tok THEN [tbl[i] EXCEPT !.revoked = TRUE] ELSE tbl[i]]

\* The table without the unique index.
RtTokenTaken_NoIndex(tbl, tok) == FALSE

\* The unique index on refresh_tokens.token.
RtTokenTaken(tbl, tok) == \E i \in DOMAIN tbl : tbl[i].token = tok

\* The unique index on users.email.
EmailTaken(email) == \E i \in UserIds : users[i].email = email

\* models.RefreshToken{UserID, Token, ExpiresAt: time.Unix(exp, 0), IsRevoked: false}
\* The record with the expiry of the access token.
NewRefreshRecord_AccessExpiry(uid, pair) ==
    [user |-> uid, token |-> pair.refresh, expires |-> pair.accessExp, revoked |-> FALSE]

NewRefreshRecord(uid, pair) ==
    [user |-> uid, token |-> pair.refresh, expires |-> pair.refreshExp, revoked |-> FALSE]

NoRtRecord == [user |-> 0, token |-> NoToken, expires |-> 0, revoked |-> FALSE]

\* The lookup without its is_used condition.
ValidResetRecord_IgnoringUsed(tok) ==
    FirstOf({i \in PrtIds : prts[i].token = tok /\ prts[i].expires > now})

\* Where("token = ? AND is_used = ? AND expires_at > ?", tok, false, time.Now())
ValidResetRecord(tok) ==
    FirstOf({i \in PrtIds : prts[i].token = tok /\ ~prts[i].used /\ prts[i].expires > now})

\* Model(&PasswordResetToken{}).Where("user_id = ? AND is_used = ?", uid, false).Update("is_used", true)
InvalidateUnused(tbl, uid) ==
    [i \in DOMAIN tbl |->
        IF tbl[i].user = uid /\ ~tbl[i].used THEN [tbl[i] EXCEPT !.used = TRUE] ELSE tbl[i]]

\* models.PasswordResetToken{UserID, Token, ExpiresAt: time.Now().Add(1 * time.Hour), IsUsed: false}
NewResetRecord(uid, tok, t) ==
    [user |-> uid, token |-> tok, expires |-> t + ResetTTL, used |-> FALSE, created |-> t]

-----------------------------------------------------------------------------
(* Request handlers *)

Idle ==
    [op |-> "none", pc |-> "idle", res |-> "",
     tok |-> NoToken, rtok |-> 0, email |-> <<>>, pwd |-> PwdShort, npwd |-> PwdShort,
     role |-> "", admin |-> FALSE, uid |-> 0, profile |-> "",
     rec |-> NoRec, row |-> NoRtRecord, usr |-> NoUser, pend |-> NoRtRecord, out |-> NoPair,
     reused |-> FALSE, twice |-> FALSE, stale |-> FALSE, usable |-> FALSE,
     voided |-> FALSE, wrote |-> FALSE, hdr |-> "", prior |-> {}]

Busy(p) == ctx[p].pc # "idle"

\* A request is served by the first handler that is not busy.
Free(p) ==
    /\ ~Busy(p)
    /\ \A q \in Procs : HandlerNo[q] < HandlerNo[p] => Busy(q)

At(p, op, pc) == ctx[p].op = op /\ ctx[p].pc = pc

\* A store call either succeeds or fails; f = TRUE is the failing outcome.
Outcomes == IF env.faults < MaxFaults THEN {FALSE, TRUE} ELSE {FALSE}
Failed(e, f) == [e EXCEPT !.faults = @ + (IF f THEN 1 ELSE 0)]

\* The handler has finished with result res.
Done(c, res) == [c EXCEPT !.pc = "done", !.res = res]

\* One step of handler p, leaving it at c: a finished request is answered
\* (ret) and the handler is free again.
Move(p, c, f) ==
    /\ IF c.pc = "done"
       THEN ctx' = [ctx EXCEPT ![p] = Idle] /\ ret' = c
       ELSE ctx' = [ctx EXCEPT ![p] = c] /\ ret' = Idle
    /\ env' = Failed(env, f)

\* The first step of a request: c is where the operation's first store call
\* leaves the handler.  A request that is answered by its first step without
\* having written to the store leaves no trace (the early returns are the
\* guard); the answer it gets is c.res.
Admit(p, c, f) ==
    /\ c.pc # "done"
    /\ env.calls < MaxCalls
    /\ ctx' = [ctx EXCEPT ![p] = c]
    /\ ret' = Idle
    /\ env' = Failed([env EXCEPT !.calls = @ + 1], f)

\* A request that its first step answers: nothing changes but the answer.
Reject(p, c, f) ==
    /\ c.pc = "done"
    /\ ctx' = ctx
    /\ ret' = c
    /\ env' = Failed(env, f)

\* Row lock held by an open rotation transaction on the row it saved.
Locked(i) ==
    \E q \in Procs : ctx[q].op = "Refresh" /\ ctx[q].pc \in {"create", "commit"} /\ ctx[q].rec = i

\* An insert that does not meet the uncommitted row of another transaction.
PendingInsert_Unseen(p, tok) == FALSE

\* A row inserted by a transaction that has not committed yet.
PendingInsert(p, tok) ==
    \E q \in Procs \ {p} : ctx[q].op = "Refresh" /\ ctx[q].pc = "commit" /\ ctx[q].pend.token = tok

UserLocked(uid) == \E i \in RtIds : rts[i].user = uid /\ Locked(i)

\* The row a successful Signup leaves in users.
SignedUpUser(id, email, pwd, role, active) ==
    [id |-> id, email |-> email, password |-> HashPassword(pwd), role |-> role,
     active |-> active, profile |-> ""]

\* The row a successful Signup at second t leaves in refresh_tokens.
SignedUpToken(u, t) == NewRefreshRecord(u.id, GenerateTokenPair(u.id, u.email, u.role, t))

UserA == SignedUpUser(1, EmailA, PwdA, "customer", TRUE)
UserB(active) == SignedUpUser(2, EmailB, PwdA, "admin", active)

\* The service is constructed over the database as it stands: empty, or with
\* the customer A and the admin B signed up at second 0 (B active, or
\* deactivated since).
SeedStores ==
    { [users |-> <<>>, rts |-> <<>>] }
    \cup { [users |-> <<UserA, UserB(b)>>,
            rts |-> <<SignedUpToken(UserA, 0), SignedUpToken(UserB(b), 0)>>] : b \in BOOLEAN }

Init ==
    /\ \E s \in SeedStores :
        /\ users = s.users
        /\ rts = s.rts
        /\ hist = [handed |-> {s.rts[i].token : i \in DOMAIN s.rts}, used |-> {},
                   logins |-> {}, superseded |-> {}, voided |-> {}, resets |-> {},
                   spent |-> {}]
    /\ prts = <<>>
    /\ now = 1
    /\ ctx = [p \in Procs |-> Idle]
    /\ ret = Idle
    /\ env = [calls |-> 0, faults |-> 0, ticks |-> 0, rand |-> 0]

\* Time passes.
TickBy(steps) ==
    /\ env.ticks < MaxTicks
    /\ \E d \in steps : now' = now + d
    /\ env' = [env EXCEPT !.ticks = @ + 1]
    /\ ret' = Idle
    /\ UNCHANGED <<users, rts, prts, ctx, hist>>

Tick == TickBy({1, RefreshTTL})

-----------------------------------------------------------------------------
(* AuthService.Signup *)

\* The request checks made before the store is touched; "" when they pass.
\* ev and ph are the answers of the external validation service.
SignupCheck(email, pwd, role, ev, ph) ==
    IF ~EmailFormatOk[email] THEN "invalid email format"
    ELSE IF ~IsValidPassword(pwd) THEN "password must be at least 8 characters"
    ELSE IF ev = "unavailable" THEN "email validation service unavailable"
    ELSE IF ev = "error" THEN "email validation failed"
    ELSE IF ev = "invalid" THEN "email address is not valid or deliverable"
    ELSE IF ph = "error" THEN "phone validation failed"
    ELSE IF ph = "invalid" THEN "phone number is not valid"
    ELSE IF ~IsValidRole(IF role = "" THEN "customer" ELSE role) THEN "invalid role"
    ELSE ""

SignupFirst(req, f) ==
    LET c == [Idle EXCEPT !.op = "Signup", !.email = req.email, !.pwd = req.pwd,
                          !.role = IF req.role = "" THEN "customer" ELSE req.role]
        err == SignupCheck(req.email, req.pwd, req.role, req.ev, req.ph)
    IN  IF err # "" THEN Done(c, err)
        ELSE IF ~f /\ UserByEmail(req.email) # NoRec THEN Done(c, "user already exists")
        ELSE [c EXCEPT !.pc = "create"]

Signup_Find(p) ==
    /\ Free(p)
    /\ \E req \in SignupRequests, f \in Outcomes : Admit(p, SignupFirst(req, f), f)
    /\ UNCHANGED <<users, rts, prts, now, hist>>

Signup_CreateUser(p) ==
    /\ At(p, "Signup", "create")
    /\ \E f \in Outcomes :
        LET c == ctx[p]
            u == [id |-> Len(users) + 1, email |-> SanitizeString(c.email),
                  password |-> HashPassword(c.pwd), role |-> c.role, active |-> TRUE,
                  profile |-> ""]
        IN  IF f \/ EmailTaken(u.email)
            THEN /\ Move(p, Done(c, "failed to create user"), f)
                 /\ users' = users
            ELSE /\ Move(p, [c EXCEPT !.pc = "store", !.usr = u, !.wrote = TRUE], f)
                 /\ users' = Append(users, u)
    /\ UNCHANGED <<rts, prts, now, hist>>

\* GenerateTokenPair, then Create(&refreshToken): shared by Signup and Login.
StoreTokenPair(p, op) ==
    /\ At(p, op, "store")
    /\ LET c == ctx[p]
           pair == GenerateTokenPair(c.usr.id, c.usr.email, c.usr.role, now)
       IN  /\ ~PendingInsert(p, pair.refresh)
           /\ \E f \in Outcomes :
                IF f \/ RtTokenTaken(rts, pair.refresh)
                THEN /\ Move(p, Done(c, "failed to store refresh token"), f)
                     /\ rts' = rts
                     /\ hist' = hist
                ELSE /\ Move(p, [Done(c, "ok") EXCEPT !.out = pair], f)
                     /\ rts' = Append(rts, NewRefreshRecord(c.usr.id, pair))
                     /\ hist' = IF op = "Login"
                                THEN [hist EXCEPT !.handed = @ \cup {pair.refresh},
                                                  !.logins = @ \cup {pair.refresh},
                                                  !.superseded = @ \cup c.prior]
                                ELSE [hist EXCEPT !.handed = @ \cup {pair.refresh}]
    /\ UNCHANGED <<users, prts, now>>

Signup_Store(p) == StoreTokenPair(p, "Signup")

-----------------------------------------------------------------------------
(* AuthService.Login *)

\* The checks with an answer of its own for a wrong password.
LoginCheck_TellingWrongPassword(uid, pwd, admin) ==
    IF uid = NoRec THEN "invalid credentials"
    ELSE IF ~CheckPassword(users[uid], pwd) THEN "wrong password"
    ELSE IF users[uid].role # (IF admin THEN "admin" ELSE "customer") THEN "invalid credentials"
    ELSE ""

\* The credential checks of Login on the row found (0: none found).
LoginCheck(uid, pwd, admin) ==
    IF uid = NoRec THEN "invalid credentials"
    ELSE IF ~CheckPassword(users[uid], pwd) THEN "invalid credentials"
    ELSE IF users[uid].role # (IF admin THEN "admin" ELSE "customer") THEN "invalid credentials"
    ELSE ""

LoginFirst(req, f) ==
    LET c == [Idle EXCEPT !.op = "Login", !.email = req.email, !.pwd = req.pwd,
                          !.admin = req.admin]
        uid == IF f THEN NoRec ELSE ActiveUserByEmail(req.email)
        err == LoginCheck(uid, req.pwd, req.admin)
    IN  IF ~EmailFormatOk[req.email] THEN Done(c, "invalid email format")
        ELSE IF err # "" THEN Done(c, err)
        ELSE [c EXCEPT !.pc = "revoke", !.usr = users[uid],
                       !.prior = {t \in hist.logins : t.uid = uid}]

Login_Find(p) ==
    /\ Free(p)
    /\ \E req \in LoginRequests, f \in Outcomes : Admit(p, LoginFirst(req, f), f)
    /\ UNCHANGED <<users, rts, prts, now, hist>>

\* Login returns at the format check, the lookup or the credential checks.
Login_Refuse(p) ==
    /\ Free(p)
    /\ \E req \in LoginRequests, f \in Outcomes : Reject(p, LoginFirst(req, f), f)
    /\ UNCHANGED <<users, rts, prts, now, hist>>

\* The result of the Update is not looked at.
Login_Revoke(p) ==
    /\ At(p, "Login", "revoke")
    /\ ~UserLocked(ctx[p].usr.id)
    /\ \E f \in Outcomes :
        /\ rts' = IF f THEN rts ELSE RevokeAllForUser(rts, ctx[p].usr.id)
        /\ Move(p, [ctx[p] EXCEPT !.pc = "store", !.wrote = (rts' # rts)], f)
    /\ UNCHANGED <<users, prts, now, hist>>

Login_Store(p) == StoreTokenPair(p, "Login")

-----------------------------------------------------------------------------
(* AuthService.RefreshToken *)

AccessOf(r) == GenerateAccessToken(r.uid, r.email, r.role, r.iat)

\* What a caller can present: the refresh tokens handed out, the access tokens
\* handed out with them, and strings the server never signed.
PresentableTokens == hist.handed \cup {AccessOf(r) : r \in hist.handed} \cup {ForgedToken}

\* The record is usable: it exists, is not revoked and has not expired.
Usable(tok) == \E i \in RtIds : rts[i].token = tok /\ ~rts[i].revoked /\ now < rts[i].expires

RefreshFirst(tok, f) ==
    LET c == [Idle EXCEPT !.op = "Refresh", !.tok = tok,
                          !.reused = (tok \in hist.used), !.usable = Usable(tok),
                          !.stale = (tok \in hist.superseded),
                          !.voided = (tok \in hist.voided)]
        rec == ValidRefreshRecord(tok)
    IN  IF ~ValidateToken(tok, now) THEN Done(c, "invalid refresh token")
        ELSE IF tok.type # "refresh" THEN Done(c, "invalid token type")
        ELSE IF f THEN Done(c, "store error")
        ELSE IF rec = NoRec THEN Done(c, "refresh token not found or expired")
        ELSE [c EXCEPT !.pc = "user", !.rec = rec, !.row = rts[rec]]

Refresh_Find(p) ==
    /\ Free(p)
    /\ \E tok \in PresentableTokens, f \in Outcomes : Admit(p, RefreshFirst(tok, f), f)
    /\ UNCHANGED <<users, rts, prts, now, hist>>

\* RefreshToken returns at the JWT checks or at the record lookup.
Refresh_Refuse(p) ==
    /\ Free(p)
    /\ \E tok \in PresentableTokens, f \in Outcomes : Reject(p, RefreshFirst(tok, f), f)
    /\ UNCHANGED <<users, rts, prts, now, hist>>

Refresh_User(p) ==
    /\ At(p, "Refresh", "user")
    /\ \E f \in Outcomes :
        LET c == ctx[p]
            uid == IF f THEN NoRec ELSE ActiveUserById(c.row.user)
        IN  Move(p, IF uid = NoRec THEN Done(c, "user not found")
                    ELSE [c EXCEPT !.pc = "save", !.usr = users[uid]], f)
    /\ UNCHANGED <<users, rts, prts, now, hist>>

\* The record saved as it was read.
MarkRevoked_Forgotten(row) == row

\* refreshToken.IsRevoked = true
MarkRevoked(row) == [row EXCEPT !.revoked = TRUE]

\* tx := Begin(); refreshToken.IsRevoked = true; tx.Save(&refreshToken)
Refresh_Save(p) ==
    /\ At(p, "Refresh", "save")
    /\ ~Locked(ctx[p].rec)
    /\ \E f \in Outcomes :
        LET c == ctx[p]
        IN  Move(p, IF f THEN Done(c, "failed to revoke old token")
                    ELSE [c EXCEPT !.pc = "create", !.row = MarkRevoked(c.row)],
                 f)
    /\ UNCHANGED <<users, rts, prts, now, hist>>

\* GenerateTokenPair; tx.Create(&newRefresh)
Refresh_Create(p) ==
    /\ At(p, "Refresh", "create")
    /\ LET c == ctx[p]
           pair == GenerateTokenPair(c.usr.id, c.usr.email, c.usr.role, now)
       IN  /\ ~PendingInsert(p, pair.refresh)
           /\ \E f \in Outcomes :
                Move(p, IF f \/ RtTokenTaken(rts, pair.refresh)
                        THEN Done(c, "failed to store new refresh token")
                        ELSE [c EXCEPT !.pc = "commit", !.out = pair,
                                       !.pend = NewRefreshRecord(c.usr.id, pair)], f)
    /\ UNCHANGED <<users, rts, prts, now, hist>>

\* What the transaction wrote, applied to the table at commit.
CommitRotation(tbl, rec, row, pend) == Append([tbl EXCEPT ![rec] = row], pend)

\* tx.Commit(): its error is not looked at; the pair is returned either way.
Refresh_Commit(p) ==
    /\ At(p, "Refresh", "commit")
    /\ \E f \in Outcomes :
        LET c == ctx[p]
        IN  /\ rts' = IF f THEN rts ELSE CommitRotation(rts, c.rec, c.row, c.pend)
            /\ Move(p, [Done(c, "ok") EXCEPT !.twice = (c.tok \in hist.used)], f)
            /\ hist' = [hist EXCEPT !.handed = @ \cup {c.out.refresh}, !.used = @ \cup {c.tok}]
    /\ UNCHANGED <<users, prts, now>>

-----------------------------------------------------------------------------
(* AuthService.ForgotPassword *)

ForgotFirstOn(us, email, f) ==
    LET c == [Idle EXCEPT !.op = "ForgotPassword", !.email = email]
        uid == IF f THEN NoRec ELSE ActiveUserIn(us, email)
    IN  IF ~EmailFormatOk[email] THEN Done(c, "invalid email format")
        ELSE IF uid = NoRec THEN Done(c, "ok")
        ELSE [c EXCEPT !.pc = "invalidate", !.usr = us[uid]]

ForgotFirst(email, f) == ForgotFirstOn(users, email, f)

Forgot_Find(p) ==
    /\ Free(p)
    /\ \E email \in Emails, f \in Outcomes : Admit(p, ForgotFirst(email, f), f)
    /\ UNCHANGED <<users, rts, prts, now, hist>>

\* ForgotPassword returns at the format check or at the lookup.
Forgot_Refuse(p) ==
    /\ Free(p)
    /\ \E email \in Emails, f \in Outcomes : Reject(p, ForgotFirst(email, f), f)
    /\ UNCHANGED <<users, rts, prts, now, hist>>

\* generateSecureToken: 32 bytes of crypto/rand, a value not drawn before.
\* The result of the Update is not looked at.
Forgot_Invalidate(p) ==
    /\ At(p, "ForgotPassword", "invalidate")
    /\ \E f \in Outcomes :
        /\ prts' = IF f THEN prts ELSE InvalidateUnused(prts, ctx[p].usr.id)
        /\ ctx' = [ctx EXCEPT ![p] = [@ EXCEPT !.pc = "create", !.rtok = env.rand + 1]]
        /\ env' = [Failed(env, f) EXCEPT !.rand = @ + 1]
    /\ ret' = Idle
    /\ UNCHANGED <<users, rts, now, hist>>

\* Create(&passwordResetToken); the token is mailed to the user.
Forgot_Create(p) ==
    /\ At(p, "ForgotPassword", "create")
    /\ \E f \in Outcomes :
        LET c == ctx[p]
        IN  IF f
            THEN /\ Move(p, Done(c, "failed to create reset token"), f)
                 /\ UNCHANGED <<prts, hist>>
            ELSE /\ Move(p, Done(c, "ok"), f)
                 /\ prts' = Append(prts, NewResetRecord(c.usr.id, c.rtok, now))
                 /\ hist' = [hist EXCEPT !.resets = @ \cup {c.rtok}]
    /\ UNCHANGED <<users, rts, now>>

-----------------------------------------------------------------------------
(* AuthService.ValidateResetToken *)

\* What a caller can present as a reset token: the tokens mailed, and a
\* string that was never one.
ResetPresentable == hist.resets \cup {0}

\* A reset-token record with the token exists that is unused and unexpired,
\* and its owner is active.
ResetUsable(tok) ==
    \E i \in PrtIds :
        /\ prts[i].token = tok /\ ~prts[i].used /\ now < prts[i].expires
        /\ \E u \in UserIds : u = prts[i].user /\ users[u].active

ValidateFirst(tok, f) ==
    LET c == [Idle EXCEPT !.op = "ValidateResetToken", !.rtok = tok,
                          !.reused = (tok \in hist.spent), !.usable = ResetUsable(tok)]
        rec == IF f THEN NoRec ELSE ValidResetRecord(tok)
    IN  IF rec = NoRec THEN Done(c, "invalid or expired reset token")
        ELSE [c EXCEPT !.pc = "user", !.rec = rec, !.row = prts[rec]]

Validate_Find(p) ==
    /\ Free(p)
    /\ \E tok \in ResetPresentable, f \in Outcomes : Admit(p, ValidateFirst(tok, f), f)
    /\ UNCHANGED <<users, rts, prts, now, hist>>

\* ValidateResetToken returns at the record lookup.
Validate_Refuse(p) ==
    /\ Free(p)
    /\ \E tok \in ResetPresentable, f \in Outcomes : Reject(p, ValidateFirst(tok, f), f)
    /\ UNCHANGED <<users, rts, prts, now, hist>>

Validate_User(p) ==
    /\ At(p, "ValidateResetToken", "user")
    /\ \E f \in Outcomes :
        LET c == ctx[p]
            uid == IF f THEN NoRec ELSE ActiveUserById(c.row.user)
        IN  Move(p, IF uid = NoRec THEN Done(c, "user not found")
                    ELSE [Done(c, "ok") EXCEPT !.usr = users[uid]], f)
    /\ UNCHANGED <<users, rts, prts, now, hist>>

-----------------------------------------------------------------------------
(* AuthService.ResetPassword *)

NewPasswords == {PwdB, PwdShort}

\* The row with the password it had.
UpdatePassword_Kept(usr, npwd) == usr

\* User.UpdatePassword: the row with the bcrypt hash of the new password.
UpdatePassword(usr, npwd) == [usr EXCEPT !.password = HashPassword(npwd)]

ResetFirst(tok, npwd, f) ==
    LET c == [Idle EXCEPT !.op = "ResetPassword", !.rtok = tok, !.npwd = npwd,
                          !.reused = (tok \in hist.spent)]
        rec == IF f THEN NoRec ELSE ValidResetRecord(tok)
    IN  IF ~IsValidPassword(npwd) THEN Done(c, "password must be at least 8 characters")
        ELSE IF rec = NoRec THEN Done(c, "invalid or expired reset token")
        ELSE [c EXCEPT !.pc = "user", !.rec = rec, !.row = prts[rec],
                       !.prior = {t \in hist.handed : t.uid = prts[rec].user}]

Reset_Find(p) ==
    /\ Free(p)
    /\ \E tok \in ResetPresentable, npwd \in NewPasswords, f \in Outcomes :
        Admit(p, ResetFirst(tok, npwd, f), f)
    /\ UNCHANGED <<users, rts, prts, now, hist>>

Reset_User(p) ==
    /\ At(p, "ResetPassword", "user")
    /\ \E f \in Outcomes :
        LET c == ctx[p]
            uid == IF f THEN NoRec ELSE ActiveUserById(c.row.user)
        IN  Move(p, IF uid = NoRec THEN Done(c, "user not found")
                    ELSE [c EXCEPT !.pc = "savepwd", !.usr = users[uid]], f)
    /\ UNCHANGED <<users, rts, prts, now, hist>>

\* user.UpdatePassword(newPassword); Save(&user): the whole row as it was read.
Reset_SaveUser(p) ==
    /\ At(p, "ResetPassword", "savepwd")
    /\ \E f \in Outcomes :
        LET c == ctx[p]
            u == UpdatePassword(c.usr, c.npwd)
        IN  IF f
            THEN /\ Move(p, Done(c, "failed to save new password"), f)
                 /\ users' = users
            ELSE /\ Move(p, [c EXCEPT !.pc = "markused", !.usr = u, !.wrote = TRUE], f)
                 /\ users' = [users EXCEPT ![u.id] = u]
    /\ UNCHANGED <<rts, prts, now, hist>>

\* resetToken.IsUsed = true; Save(&resetToken): its result is not looked at.
Reset_MarkUsed(p) ==
    /\ At(p, "ResetPassword", "markused")
    /\ \E f \in Outcomes :
        LET c == ctx[p]
        IN  /\ prts' = IF f THEN prts ELSE [prts EXCEPT ![c.rec] = [c.row EXCEPT !.used = TRUE]]
            /\ Move(p, [c EXCEPT !.pc = "revoke"], f)
    /\ UNCHANGED <<users, rts, now, hist>>

\* Update("is_revoked", true) on the user's refresh tokens: its result is not
\* looked at, and the call returns nil.
Reset_Revoke(p) ==
    /\ At(p, "ResetPassword", "revoke")
    /\ ~UserLocked(ctx[p].usr.id)
    /\ \E f \in Outcomes :
        LET c == ctx[p]
        IN  /\ rts' = IF f THEN rts ELSE RevokeAllForUser(rts, c.usr.id)
            /\ Move(p, [Done(c, "ok") EXCEPT !.twice = (c.rtok \in hist.spent)], f)
            /\ hist' = [hist EXCEPT !.spent = @ \cup {c.rtok}, !.voided = @ \cup c.prior]
    /\ UNCHANGED <<users, prts, now>>

-----------------------------------------------------------------------------
(* AuthService.Logout, AuthService.LogoutAll *)

\* A call that consists of one store call: it is answered in the step it arrives in.
Answer(p, c, f) ==
    /\ Free(p)
    /\ env.calls < MaxCalls
    /\ ctx' = ctx
    /\ ret' = c
    /\ env' = Failed([env EXCEPT !.calls = @ + 1], f)

\* Update("is_revoked", true) where token = tok; the Update's error is returned.
Logout(p) ==
    /\ \E tok \in PresentableTokens, f \in Outcomes :
        /\ ~\E i \in RtIds : rts[i].token = tok /\ Locked(i)
        /\ rts' = IF f THEN rts ELSE RevokeByToken(rts, tok)
        /\ Answer(p, Done([Idle EXCEPT !.op = "Logout", !.tok = tok],
                           IF f THEN "store error" ELSE "ok"), f)
    /\ UNCHANGED <<users, prts, now, hist>>

\* The ids LogoutAll and ChangePassword are called with: the id claim of an
\* access token, of an identity in the table or of one that is not.
CallerIds == UserIds \cup {0}

\* Update("is_revoked", true) where user_id = uid; the Update's error is returned.
LogoutAll(p) ==
    /\ \E uid \in CallerIds, f \in Outcomes :
        /\ ~UserLocked(uid)
        /\ rts' = IF f THEN rts ELSE RevokeAllForUser(rts, uid)
        /\ Answer(p, Done([Idle EXCEPT !.op = "LogoutAll", !.uid = uid],
                           IF f THEN "store error" ELSE "ok"), f)
    /\ UNCHANGED <<users, prts, now, hist>>

-----------------------------------------------------------------------------
(* AuthService.ChangePassword *)

CurrentPasswords == {PwdA, PwdB}

\* The checks without the one of the current password.
ChangeCheck_WithoutCurrent(uid, cur) ==
    IF uid = NoRec THEN "user not found" ELSE ""

\* The checks of ChangePassword on the row found (0: none found); "" when they pass.
ChangeCheck(uid, cur) ==
    IF uid = NoRec THEN "user not found"
    ELSE IF ~CheckPassword(users[uid], cur) THEN "current password is incorrect"
    ELSE ""

ChangeFirst(id, cur, npwd, f) ==
    LET c == [Idle EXCEPT !.op = "ChangePassword", !.uid = id, !.pwd = cur, !.npwd = npwd]
        uid == IF f THEN NoRec ELSE ActiveUserById(id)
        err == ChangeCheck(uid, cur)
        usr == IF uid = NoRec THEN NoUser ELSE users[uid]
    IN  IF ~IsValidPassword(npwd) THEN Done(c, "password must be at least 8 characters")
        ELSE IF err # "" THEN [Done(c, err) EXCEPT !.usr = usr]
        ELSE [c EXCEPT !.pc = "savepwd", !.usr = usr]

Change_Find(p) ==
    /\ Free(p)
    /\ \E id \in CallerIds, cur \in CurrentPasswords, npwd \in NewPasswords, f \in Outcomes :
        Admit(p, ChangeFirst(id, cur, npwd, f), f)
    /\ UNCHANGED <<users, rts, prts, now, hist>>

\* ChangePassword returns at the password policy, the lookup or the password check.
Change_Refuse(p) ==
    /\ Free(p)
    /\ \E id \in CallerIds, cur \in CurrentPasswords, npwd \in NewPasswords, f \in Outcomes :
        Reject(p, ChangeFirst(id, cur, npwd, f), f)
    /\ UNCHANGED <<users, rts, prts, now, hist>>

\* user.UpdatePassword(newPassword); Save(&user): the whole row as it was read.
Change_Save(p) ==
    /\ At(p, "ChangePassword", "savepwd")
    /\ \E f \in Outcomes :
        LET c == ctx[p]
            u == UpdatePassword(c.usr, c.npwd)
        IN  IF f
            THEN /\ Move(p, Done(c, "failed to save new password"), f)
                 /\ users' = users
            ELSE /\ Move(p, Done(c, "ok"), f)
                 /\ users' = [users EXCEPT ![u.id] = u]
    /\ UNCHANGED <<rts, prts, now, hist>>

-----------------------------------------------------------------------------
(* middleware.AuthMiddleware *)

\* The Authorization headers of a request: none, a token without the
\* "Bearer " prefix, or "Bearer " followed by a token.
Headers ==
    {[scheme |-> "none", tok |-> NoToken], [scheme |-> "raw", tok |-> ForgedToken]}
        \cup {[scheme |-> "bearer", tok |-> t] : t \in PresentableTokens}

\* The check that also wants the type claim to be access.
MiddlewareCheck_AccessOnly(h, t) ==
    IF h.scheme = "none" THEN "Authorization header required"
    ELSE IF h.scheme # "bearer" THEN "Bearer token required"
    ELSE IF ~ValidateToken(h.tok, t) \/ h.tok.type # "access" THEN "Invalid token"
    ELSE "ok"

\* The check that also asks the store for a live session of an active identity.
MiddlewareCheck_AskingStore(h, t) ==
    IF h.scheme = "none" THEN "Authorization header required"
    ELSE IF h.scheme # "bearer" THEN "Bearer token required"
    ELSE IF ~ValidateToken(h.tok, t) THEN "Invalid token"
    ELSE IF ActiveUserById(h.tok.uid) = NoRec
            \/ \A i \in RtIds : rts[i].user = h.tok.uid => rts[i].revoked THEN "Invalid token"
    ELSE "ok"

\* The answer of AuthMiddleware to a request with header h at time t; "ok": c.Next().
MiddlewareCheck(h, t) ==
    IF h.scheme = "none" THEN "Authorization header required"
    ELSE IF h.scheme # "bearer" THEN "Bearer token required"
    ELSE IF ~ValidateToken(h.tok, t) THEN "Invalid token"
    ELSE "ok"

\* The request is answered, or passed on with user_id, user_email and
\* user_role set from the claims. No store is read or written.
AuthMiddleware ==
    /\ \E h \in Headers :
        LET res == MiddlewareCheck(h, now)
            cl == TokenClaims(h.tok, now)
            c == [Idle EXCEPT !.op = "AuthMiddleware", !.hdr = h.scheme, !.tok = h.tok]
        IN  ret' = IF res = "ok"
                   THEN [Done(c, res) EXCEPT !.uid = cl.UserID, !.email = cl.Email,
                                             !.role = cl.Role]
                   ELSE Done(c, res)
    /\ UNCHANGED <<users, rts, prts, now, ctx, env, hist>>

-----------------------------------------------------------------------------
(* AuthService.UpdateProfile *)

\* The requests UpdateProfile is called with: the e-mail address, the names
\* and phone number (profile), and the answers of the validation service
\* (ev "unavailable": the service has no validation service).
ProfileRequests ==
    { [email |-> EmailA, profile |-> "ann", ev |-> "valid", ph |-> "none"],
      [email |-> EmailC, profile |-> "cat", ev |-> "valid", ph |-> "valid"],
      [email |-> EmailB, profile |-> "bob", ev |-> "valid", ph |-> "none"],
      [email |-> EmailBad, profile |-> "ann", ev |-> "invalid", ph |-> "none"],
      [email |-> EmailBad, profile |-> "ann", ev |-> "unavailable", ph |-> "none"],
      [email |-> EmailA, profile |-> "ann", ev |-> "valid", ph |-> "invalid"] }

\* The request checks of UpdateProfile: the validation service is asked about
\* an address only when the format check fails and the service is there.
ProfileCheck(email, ev, ph) ==
    IF ~EmailFormatOk[email] /\ ev = "error" THEN "email validation failed"
    ELSE IF ~EmailFormatOk[email] /\ ev = "invalid" THEN "invalid email format"
    ELSE IF ev # "unavailable" /\ ph = "error" THEN "phone validation failed"
    ELSE IF ev # "unavailable" /\ ph = "invalid" THEN "phone number is not valid"
    ELSE ""

\* user.FirstName, LastName, Email, PhoneNumber = SanitizeString(req. ...)
WithProfile(usr, email, profile) ==
    [usr EXCEPT !.email = SanitizeString(email), !.profile = profile]

\* The unique index on users.email, for a row that is saved.
EmailOfAnother(u) == \E i \in UserIds : i # u.id /\ users[i].email = u.email

ProfileFirst(id, req, f) ==
    LET c == [Idle EXCEPT !.op = "UpdateProfile", !.uid = id, !.email = req.email,
                          !.profile = req.profile]
        err == ProfileCheck(req.email, req.ev, req.ph)
        uid == IF f THEN NoRec ELSE ActiveUserById(id)
    IN  IF err # "" THEN Done(c, err)
        ELSE IF uid = NoRec THEN Done(c, "user not found")
        ELSE [c EXCEPT !.pc = "saveprofile",
                       !.usr = WithProfile(users[uid], req.email, req.profile)]

\* A request refused by the checks or the lookup changes nothing and is not
\* admitted.
Profile_Find(p) ==
    /\ Free(p)
    /\ \E id \in CallerIds, req \in ProfileRequests, f \in Outcomes :
        Admit(p, ProfileFirst(id, req, f), f)
    /\ UNCHANGED <<users, rts, prts, now, hist>>

\* Save(&user): every column of the row, as it was read and then edited.
Profile_Save(p) ==
    /\ At(p, "UpdateProfile", "saveprofile")
    /\ \E f \in Outcomes :
        LET c == ctx[p]
            u == c.usr
        IN  IF f \/ EmailOfAnother(u)
            THEN /\ Move(p, Done(c, "failed to update profile"), f)
                 /\ users' = users
            ELSE /\ Move(p, [Done(c, "ok") EXCEPT !.wrote = TRUE], f)
                 /\ users' = [users EXCEPT ![u.id] = u]
    /\ UNCHANGED <<rts, prts, now, hist>>

-----------------------------------------------------------------------------

Next ==
    \/ Tick
    \/ \E p \in Procs :
        \/ Signup_Find(p) \/ Signup_CreateUser(p) \/ Signup_Store(p)
        \/ Login_Find(p) \/ Login_Revoke(p) \/ Login_Store(p)
        \/ Refresh_Find(p) \/ Refresh_User(p) \/ Refresh_Save(p)
        \/ Refresh_Create(p) \/ Refresh_Commit(p)

Spec == Init /\ [][Next]_vars

\* Signup and Login, with the requests Login refuses observed.
NextLogin ==
    \/ Tick
    \/ \E p \in Procs :
        \/ Signup_Find(p) \/ Signup_CreateUser(p) \/ Signup_Store(p)
        \/ Login_Find(p) \/ Login_Refuse(p) \/ Login_Revoke(p) \/ Login_Store(p)

SpecLogin == Init /\ [][NextLogin]_vars

\* Token rotation, with the tokens RefreshToken refuses observed.
NextRefresh ==
    \/ Tick
    \/ \E p \in Procs :
        \/ Refresh_Find(p) \/ Refresh_Refuse(p) \/ Refresh_User(p) \/ Refresh_Save(p)
        \/ Refresh_Create(p) \/ Refresh_Commit(p)

SpecRefresh == Init /\ [][NextRefresh]_vars

\* The reset tokens live for an hour.
TickReset == TickBy({ResetTTL})

\* Password reset, beside token rotation.
NextReset ==
    \/ TickReset
    \/ \E p \in Procs :
        \/ Forgot_Find(p) \/ Forgot_Refuse(p) \/ Forgot_Invalidate(p) \/ Forgot_Create(p)
        \/ Validate_Find(p) \/ Validate_User(p)
        \/ Reset_Find(p) \/ Reset_User(p) \/ Reset_SaveUser(p) \/ Reset_MarkUsed(p)
        \/ Reset_Revoke(p)
        \/ Refresh_Find(p) \/ Refresh_User(p) \/ Refresh_Save(p)
        \/ Refresh_Create(p) \/ Refresh_Commit(p)

SpecReset == Init /\ [][NextReset]_vars

\* The reset flow, with the tokens ValidateResetToken refuses observed.
NextValidate ==
    \/ TickReset
    \/ \E p \in Procs :
        \/ Forgot_Find(p) \/ Forgot_Invalidate(p) \/ Forgot_Create(p)
        \/ Validate_Find(p) \/ Validate_Refuse(p) \/ Validate_User(p)
        \/ Reset_Find(p) \/ Reset_User(p) \/ Reset_SaveUser(p) \/ Reset_MarkUsed(p)
        \/ Reset_Revoke(p)

SpecValidate == Init /\ [][NextValidate]_vars

\* The operations that update refresh-token records (login, rotation, logout,
\* logout-all, password reset), with ForgotPassword to issue the reset tokens.
\* Signup only inserts a record, with the StoreTokenPair of Login.
NextSession ==
    \/ TickBy({1})
    \/ \E p \in Procs :
        \/ Login_Find(p) \/ Login_Revoke(p) \/ Login_Store(p)
        \/ Refresh_Find(p) \/ Refresh_User(p) \/ Refresh_Save(p)
        \/ Refresh_Create(p) \/ Refresh_Commit(p)
        \/ Logout(p) \/ LogoutAll(p)
        \/ Forgot_Find(p) \/ Forgot_Invalidate(p) \/ Forgot_Create(p)
        \/ Reset_Find(p) \/ Reset_User(p) \/ Reset_SaveUser(p) \/ Reset_MarkUsed(p)
        \/ Reset_Revoke(p)

SpecSession == Init /\ [][NextSession]_vars

\* Requests with a bearer token, next to the operations that end sessions.
NextAccess ==
    \/ TickBy({AccessTTL})
    \/ AuthMiddleware
    \/ \E p \in Procs :
        \/ Login_Find(p) \/ Login_Revoke(p) \/ Login_Store(p)
        \/ Logout(p) \/ LogoutAll(p)

SpecAccess == Init /\ [][NextAccess]_vars

\* Password change next to token rotation.
NextChangeRefresh ==
    \/ TickBy({1})
    \/ \E p \in Procs :
        \/ Change_Find(p) \/ Change_Save(p)
        \/ Refresh_Find(p) \/ Refresh_User(p) \/ Refresh_Save(p)
        \/ Refresh_Create(p) \/ Refresh_Commit(p)

SpecChangeRefresh == Init /\ [][NextChangeRefresh]_vars

\* Password change, with the requests ChangePassword refuses observed, next
\* to the other two operations that write a password.
NextChange ==
    \/ TickReset
    \/ \E p \in Procs :
        \/ Change_Find(p) \/ Change_Refuse(p) \/ Change_Save(p)
        \/ Forgot_Find(p) \/ Forgot_Invalidate(p) \/ Forgot_Create(p)
        \/ Reset_Find(p) \/ Reset_User(p) \/ Reset_SaveUser(p) \/ Reset_MarkUsed(p)
        \/ Reset_Revoke(p)

SpecChange == Init /\ [][NextChange]_vars

\* Profile update next to the two operations that write a password.
NextProfile ==
    \/ TickReset
    \/ \E p \in Procs :
        \/ Profile_Find(p) \/ Profile_Save(p)
        \/ Change_Find(p) \/ Change_Save(p)
        \/ Forgot_Find(p) \/ Forgot_Invalidate(p) \/ Forgot_Create(p)
        \/ Reset_Find(p) \/ Reset_User(p) \/ Reset_SaveUser(p) \/ Reset_MarkUsed(p)
        \/ Reset_Revoke(p)

SpecProfile == Init /\ [][NextProfile]_vars

-----------------------------------------------------------------------------
(* Refresh rotation *)

Answered(op) == ret.op = op /\ ret.pc = "done"
Succeeded(op) == Answered(op) /\ ret.res = "ok"

\* C1: once a call Refresh(t) has returned success, no later call Refresh(t)
\* with the same token string returns success.
C1_RefreshOneTimeUse == Succeeded("Refresh") => ~ret.reused

\* C2: of two Refresh calls running concurrently on the same token at most one
\* returns success (stated for the runs in which no store call fails).
C2_ConcurrentRefreshOneWinner ==
    (Succeeded("Refresh") /\ env.faults = 0) => ~(ret.twice /\ ~ret.reused)

\* The rotation answered by r is in table tbl: the presented token's row is
\* revoked and a non-revoked row holds the returned token.
RotationApplied(tbl, r) ==
    /\ tbl[r.rec].revoked
    /\ \E i \in DOMAIN tbl : tbl[i].token = r.out.refresh /\ ~tbl[i].revoked

\* C3: Refresh is all-or-nothing: the step in which a Refresh call is answered
\* either answers success and leaves the presented token's record revoked and
\* a new non-revoked record holding the returned refresh token, or answers an
\* error and leaves the refresh-token table as it was; store failures at the
\* save, the create and the commit included.
C3_RefreshAllOrNothing ==
    [][(ret'.op = "Refresh" /\ ret'.pc = "done") =>
            IF ret'.res = "ok" THEN RotationApplied(rts', ret') ELSE rts' = rts]_vars

\* The answers RefreshToken gives without having found a usable record.
RefreshRefusals ==
    {"invalid refresh token", "invalid token type", "store error",
     "refresh token not found or expired"}

\* C4: Refresh(t) never succeeds when at the time of the call the table has no
\* row for t, or the row is revoked, or its expiry is not after the current
\* time; a token that passes the JWT checks gets one and the same answer
\* whether its row is absent, revoked or expired.
C4_RefreshNeedsUsableRecord ==
    (Answered("Refresh") /\ ~ret.usable) =>
        /\ ret.res \in RefreshRefusals
        /\ (ValidateToken(ret.tok, now) /\ ret.tok.type = "refresh" /\ ret.res # "store error")
                => ret.res = "refresh token not found or expired"

\* A handed-out token whose row is revoked is presented before its JWT expiry
\* and refused, in a state in which another handed-out token has no row and
\* gets the same answer.
C4_Witness ==
    /\ Answered("Refresh")
    /\ ret.res = "refresh token not found or expired"
    /\ \E i \in RtIds : rts[i].token = ret.tok /\ rts[i].revoked
    /\ \E tok \in hist.handed :
        /\ ~RtTokenTaken(rts, tok)
        /\ RefreshFirst(tok, FALSE).res = ret.res

\* C5: after a successful Login followed by a second successful Login for the
\* same identity, Refresh with the first login's refresh token fails.
C5_LoginRevokesPriorSessions == Succeeded("Refresh") => ~ret.stale

-----------------------------------------------------------------------------
(* Login *)

\* The four ways the credentials of a login request r can be wrong.
NoIdentity(r) == ~\E i \in UserIds : users[i].email = r.email
InactiveIdentity(r) ==
    /\ \E i \in UserIds : users[i].email = r.email
    /\ ~\E i \in UserIds : users[i].email = r.email /\ users[i].active
WrongPassword(r) ==
    \E i \in UserIds : /\ users[i].email = r.email /\ users[i].active
                       /\ users[i].password # HashPassword(r.pwd)
RoleMismatch(r) ==
    \E i \in UserIds : /\ users[i].email = r.email /\ users[i].active
                       /\ users[i].password = HashPassword(r.pwd)
                       /\ users[i].role # (IF r.admin THEN "admin" ELSE "customer")
BadCredentials(r) ==
    NoIdentity(r) \/ InactiveIdentity(r) \/ WrongPassword(r) \/ RoleMismatch(r)

\* C10 as stated: Login fails with one and the same error value when there is
\* no identity with the email, when the identity is inactive, when the
\* password is wrong and when the role does not match the requested one.
C10_LoginUniformError ==
    (Answered("Login") /\ BadCredentials(ret)) => ret.res = "invalid credentials"

\* C10 as amended: for a well-formed email address, Login fails with the one
\* error value "invalid credentials" in each of the four cases.
C10_LoginUniformErrorWellFormed ==
    (Answered("Login") /\ IsValidEmail(ret.email) /\ BadCredentials(ret))
        => ret.res = "invalid credentials"

\* Login has refused a well-formed request for an inactive identity, in a
\* state in which requests of the other three cases get the same answer.
C10_Witness ==
    /\ Answered("Login") /\ IsValidEmail(ret.email) /\ InactiveIdentity(ret)
    /\ ret.res = "invalid credentials"
    /\ \E r \in LoginRequests :
        IsValidEmail(r.email) /\ NoIdentity(r) /\ LoginFirst(r, FALSE).res = ret.res
    /\ \E r \in LoginRequests :
        WrongPassword(r) /\ LoginFirst(r, FALSE).res = ret.res
    /\ \E r \in LoginRequests :
        RoleMismatch(r) /\ LoginFirst(r, FALSE).res = ret.res

-----------------------------------------------------------------------------
(* Password reset *)

\* C6: after ResetPassword has returned success for an identity, Refresh fails
\* with every refresh token that was issued to that identity before the reset.
C6_ResetRevokesEarlierTokens == Succeeded("Refresh") => ~ret.voided

\* C7: a reset token is single-use: at most one ResetPassword call with it
\* returns success, sequentially or concurrently, and after that success
\* ValidateResetToken and ResetPassword with the same token fail (stated for
\* the runs in which no store call fails).
C7_ResetTokenSingleUse ==
    env.faults = 0 =>
        /\ Succeeded("ResetPassword") => ~ret.twice /\ ~ret.reused
        /\ Succeeded("ValidateResetToken") => ~ret.reused

ForgotInFlight == \E p \in Procs : ctx[p].op = "ForgotPassword"

UnusedResetTokens(uid) == {i \in PrtIds : prts[i].user = uid /\ ~prts[i].used}

\* C8: when no ForgotPassword call is in flight, each identity has at most one
\* reset-token record with is_used = false, also after several ForgotPassword
\* calls for the identity have interleaved (stated for the runs in which no
\* store call fails).
C8_OneUnusedResetToken ==
    (~ForgotInFlight /\ env.faults = 0) =>
        \A uid \in UserIds : Cardinality(UnusedResetTokens(uid)) <= 1

\* The user table without an active identity that has the email.
WithoutIdentity(us, email) ==
    [i \in DOMAIN us |-> IF us[i].email = email THEN [us[i] EXCEPT !.active = FALSE] ELSE us[i]]

\* C9: for any email, the result ForgotPassword returns is the result it
\* returns for that email when no active identity has it.
C9_ForgotSameResultWhetherEmailExists ==
    Answered("ForgotPassword") =>
        ret.res = ForgotFirstOn(WithoutIdentity(users, ret.email), ret.email, FALSE).res

-----------------------------------------------------------------------------
(* Sessions *)

\* The claims of an access token of the stored identity u.
IdentityClaims(u) ==
    [UserID |-> users[u].id, Email |-> users[u].email, Role |-> users[u].role, Type |-> "access"]

\* C11: for an active identity and its correct password, a successful Login
\* returns an access token on which ValidateToken succeeds, from the moment of
\* the answer to the last second before the token's expiry, and returns claims
\* whose id, email and role are those of the stored identity, with type access.
C11_LoginTokenRoundTrip ==
    Succeeded("Login") =>
        \E u \in UserIds :
            /\ users[u].active /\ users[u].email = ret.email
            /\ CheckPassword(users[u], ret.pwd)
            /\ \A t \in {now, ret.out.access.exp - 1} :
                /\ ValidateToken(ret.out.access, t)
                /\ TokenClaims(ret.out.access, t) = IdentityClaims(u)

\* Login has succeeded for the administrator, and the access token it returned
\* validates to the administrator's claims.
C11_Witness ==
    /\ Succeeded("Login")
    /\ ValidateToken(ret.out.access, now)
    /\ TokenClaims(ret.out.access, now).Role = "admin"
    /\ TokenClaims(ret.out.access, now).Email = ret.email

\* C12: revocation is terminal: no step of Login, Refresh, Logout, LogoutAll or
\* ResetPassword, in any interleaving, removes a refresh-token record or sets
\* the is_revoked flag of a revoked record back to false.
C12_RevocationTerminal ==
    [][\A i \in DOMAIN rts : rts[i].revoked => (i \in DOMAIN rts' /\ rts'[i].revoked)]_vars

\* Logout has been called with a token whose record a rotation had revoked
\* before, and the record is revoked.
C12_Witness ==
    /\ Succeeded("Logout") /\ env.faults = 0
    /\ ret.tok \in hist.used
    /\ \E i \in RtIds : rts[i].token = ret.tok /\ rts[i].revoked

RecordsOf(uid) == {i \in RtIds : rts[i].user = uid}

\* C14: a LogoutAll(id) step that returns no error leaves every refresh-token
\* record owned by identity id revoked, and a LogoutAll(id) step leaves the
\* records of every other identity, and the owner, token string and expiry of
\* every record, as they were.
C14_LogoutAllOnlyThatIdentity ==
    [][(ret'.op = "LogoutAll" /\ ret'.pc = "done") =>
        /\ DOMAIN rts' = DOMAIN rts
        /\ \A i \in DOMAIN rts :
            IF rts[i].user = ret'.uid
            THEN /\ ret'.res = "ok" => rts'[i].revoked
                 /\ [rts'[i] EXCEPT !.revoked = FALSE] = [rts[i] EXCEPT !.revoked = FALSE]
            ELSE rts'[i] = rts[i]
        /\ env'.faults = env.faults => ret'.res = "ok"]_vars

\* LogoutAll has succeeded for an identity that owns several records, which
\* are all revoked, while a record of another identity is not revoked.
C14_Witness ==
    /\ Succeeded("LogoutAll")
    /\ Cardinality(RecordsOf(ret.uid)) >= 2
    /\ \A i \in RecordsOf(ret.uid) : rts[i].revoked
    /\ \E j \in RtIds : rts[j].user # ret.uid /\ ~rts[j].revoked
    /\ ret.uid \notin {t.uid : t \in hist.superseded}

-----------------------------------------------------------------------------
(* Password change *)

\* C15: a ChangePassword call whose currentPassword does not verify against
\* the stored hash (the hash of the row the call read or, when it is answered
\* before it has read one, the hash stored for the identity) returns an error,
\* and the step that answers it leaves every stored identity, its password
\* hash included, unchanged.
C15_ChangePasswordWrongCurrent ==
    [][(/\ ret'.op = "ChangePassword" /\ ret'.pc = "done"
        /\ IF ret'.usr # NoUser
           THEN ~CheckPassword(ret'.usr, ret'.pwd)
           ELSE \E u \in UserIds : u = ret'.uid /\ ~CheckPassword(users[u], ret'.pwd))
        => (ret'.res # "ok" /\ users' = users)]_vars

\* ChangePassword, called with an acceptable new password, has read the
\* identity and refused the call because of the current password; the hash is
\* the one it read.
C15_Witness ==
    /\ Answered("ChangePassword")
    /\ ret.res = "current password is incorrect"
    /\ IsValidPassword(ret.npwd)
    /\ ret.usr # NoUser /\ ~CheckPassword(ret.usr, ret.pwd)
    /\ users[ret.uid].password = ret.usr.password

-----------------------------------------------------------------------------
(* Refresh: what the caller is told *)

\* The errors of RefreshToken that come from a failing store call.
RefreshStoreErrors ==
    {"store error", "failed to revoke old token", "failed to store new refresh token"}

\* C16: refresh token failures are not distinguished to the caller: a Refresh
\* that fails because of the token (signature or expiry, type, record missing,
\* revoked or expired, owner inactive) returns the error value that every
\* other token refused in that state is refused with.
C16_RefreshFailuresIndistinguishable ==
    (Answered("Refresh") /\ ret.res \notin {"ok"} \cup RefreshStoreErrors) =>
        \A tok \in PresentableTokens :
            RefreshFirst(tok, FALSE).pc = "done" => RefreshFirst(tok, FALSE).res = ret.res

\* C17: every successful Refresh(t) returns a pair whose refresh token is a
\* refresh token different from t, in particular when t is the refresh token
\* of the pair that Signup issued.
C17_RefreshReturnsDifferentToken ==
    Succeeded("Refresh") =>
        /\ ret.out.refresh.type = "refresh"
        /\ ret.out.refresh # ret.tok

\* Refresh has succeeded with the refresh token that a Signup of this run
\* issued: the token is no login's, was issued after the start, and its
\* identity owns two records, the one of Signup and the one of this Refresh.
C17_Witness ==
    /\ Succeeded("Refresh")
    /\ ret.tok \in hist.handed \ hist.logins
    /\ ret.tok.iat >= 1
    /\ Cardinality(RecordsOf(ret.tok.uid)) = 2
    /\ ret.out.refresh # ret.tok

-----------------------------------------------------------------------------
(* ValidateResetToken *)

\* A step of a ValidateResetToken call: the call arrives, moves on or is answered.
ValidateStep ==
    \/ ret'.op = "ValidateResetToken"
    \/ \E p \in Procs :
        ctx'[p] # ctx[p] /\ "ValidateResetToken" \in {ctx[p].op, ctx'[p].op}

\* C18: ValidateResetToken(token) is read-only: no step of it changes a
\* reset-token, refresh-token or user record. It succeeds only when, as the
\* call arrived, a record with the token existed that was unused and unexpired
\* and whose owner was active, and then it returns that owner; when such a
\* record existed and no store call has failed, it succeeds.
C18_ValidateResetTokenReadOnly ==
    [][ValidateStep =>
        /\ users' = users /\ rts' = rts /\ prts' = prts
        /\ (ret'.op = "ValidateResetToken" /\ ret'.pc = "done") =>
            /\ ret'.res = "ok" =>
                /\ ret'.usable
                /\ \E i \in PrtIds :
                    /\ prts[i].token = ret'.rtok
                    /\ ret'.usr = users[prts[i].user]
                    /\ ret'.usr.active
            /\ (ret'.usable /\ env'.faults = 0) => ret'.res = "ok"]_vars

\* ValidateResetToken has succeeded, has returned the owner of the token, and
\* the token's record is still unused.
C18_Witness ==
    /\ Succeeded("ValidateResetToken")
    /\ \E i \in PrtIds :
        /\ prts[i].token = ret.rtok /\ ~prts[i].used
        /\ ret.usr = users[prts[i].user]
        /\ ret.usr.email = EmailA

-----------------------------------------------------------------------------
(* Lifetimes *)

\* A call has returned a token pair.
PairReturned == ret.pc = "done" /\ ret.res = "ok" /\ ret.op \in {"Signup", "Login", "Refresh"}

-----------------------------------------------------------------------------
(* Refresh: token type and owner *)

\* The identity that owns the record of the token is not active.
OwnerInactive(tok) ==
    \E i \in RtIds : rts[i].token = tok /\ ~users[rts[i].user].active

\* C20: Refresh succeeds only if the type claim of the presented token is
\* "refresh" and the identity owning its record is active: a Refresh with an
\* access token, or with a refresh token whose owner is inactive, fails, and
\* the step that answers it leaves the refresh-token records unchanged.
C20_RefreshNeedsTypeAndActiveOwner ==
    [][(/\ ret'.op = "Refresh" /\ ret'.pc = "done"
        /\ (ret'.tok.type # "refresh" \/ OwnerInactive(ret'.tok)))
        => (ret'.res # "ok" /\ rts' = rts)]_vars

\* Refresh has refused a valid, unrevoked refresh token because its owner is
\* inactive, in a state in which the access token issued with it is refused
\* for its type.
C20_Witness ==
    /\ Answered("Refresh") /\ ret.res = "user not found"
    /\ ret.usable /\ OwnerInactive(ret.tok) /\ env.faults = 0
    /\ ValidateToken(AccessOf(ret.tok), now)
    /\ RefreshFirst(AccessOf(ret.tok), FALSE).res = "invalid token type"

-----------------------------------------------------------------------------
(* Password change and sessions *)

\* C21: the step in which ChangePassword returns success stores the hash of
\* the new password for the identity and leaves every refresh-token record
\* unchanged: each token that Refresh would take up before the step, it
\* would take up after it, and an owner found active before is found active
\* after it.
C21_ChangePasswordKeepsSessions ==
    [][(ret'.op = "ChangePassword" /\ ret'.pc = "done" /\ ret'.res = "ok") =>
        /\ users'[ret'.uid].password = HashPassword(ret'.npwd)
        /\ CheckPassword(users'[ret'.uid], ret'.npwd)
        /\ rts' = rts
        /\ \A tok \in PresentableTokens :
            /\ RefreshFirst(tok, FALSE).pc = "user" => (RefreshFirst(tok, FALSE).pc = "user")'
            /\ ActiveUserById(tok.uid) # NoRec => (ActiveUserById(tok.uid) # NoRec)']_vars

\* Refresh has succeeded with a token issued before the identity's password
\* was changed.
C21_Witness ==
    /\ Succeeded("Refresh")
    /\ ret.tok.iat = 0
    /\ users[ret.tok.uid].password = HashPassword(PwdB)
    /\ \E i \in RtIds : rts[i].token = ret.out.refresh /\ ~rts[i].revoked

-----------------------------------------------------------------------------
(* Failing calls *)

\* C22: a Login call that returns an error has changed no refresh-token
\* record, whether it fails at the credentials or at storing the new record.
C22_LoginErrorNoEffect ==
    (Answered("Login") /\ ret.res # "ok") => ~ret.wrote

\* C23: ResetPassword applies its three effects as a unit: when it returns
\* success the identity's stored hash is that of the new password, the reset
\* token's record is marked used and every refresh-token record of the
\* identity is revoked; when it returns an error it has written nothing.
C23_ResetAllOrNothing ==
    Answered("ResetPassword") =>
        IF ret.res = "ok"
        THEN /\ users[ret.usr.id].password = HashPassword(ret.npwd)
             /\ prts[ret.rec].used
             /\ \A i \in RecordsOf(ret.usr.id) : rts[i].revoked
        ELSE ~ret.wrote

\* C24: a Signup call that returns an error has created no identity, so that
\* the same Signup, made again, is not refused with "user already exists"
\* because of it.
C24_SignupErrorNoEffect ==
    (Answered("Signup") /\ ret.res # "ok") =>
        /\ ~ret.wrote
        /\ \A u \in UserIds : users[u] # ret.usr

-----------------------------------------------------------------------------
(* Bearer tokens *)

\* AuthMiddleware has answered a request that carried "Bearer " and a token.
BearerAnswered == Answered("AuthMiddleware") /\ ret.hdr = "bearer"

\* C25: access-token validity is stateless: AuthMiddleware admits every
\* correctly signed access token from its issue to the last second before its
\* expiry 15 minutes (900 s) later, with the token's claims, whatever the
\* store says: also when the identity's refresh-token records have been
\* revoked by Logout, LogoutAll or a later Login, or the identity is inactive.
C25_AccessTokenStateless ==
    (/\ BearerAnswered
     /\ ret.tok.type = "access" /\ ret.tok.sig = "hs256"
     /\ ret.tok.iat <= now /\ now < ret.tok.iat + 900)
        => /\ ret.res = "ok"
           /\ ValidateToken(ret.tok, now)
           /\ ret.uid = ret.tok.uid /\ ret.email = ret.tok.email /\ ret.role = ret.tok.role

\* AuthMiddleware has admitted the access token of an identity all of whose
\* refresh-token records were revoked by an operation of this run.
C25_Witness ==
    /\ BearerAnswered /\ ret.res = "ok" /\ ret.tok.type = "access"
    /\ env.calls >= 1
    /\ RecordsOf(ret.uid) # {}
    /\ \A i \in RecordsOf(ret.uid) : rts[i].revoked

\* C28: AuthMiddleware admits a request with a bearer token exactly when the
\* token passes ValidateToken, and does not look at the type claim: a valid
\* refresh token is admitted, with the user_id, user_email and user_role that
\* the access token issued with it carries.
C28_MiddlewareIgnoresType ==
    BearerAnswered =>
        /\ ret.res = "ok" <=> ValidateToken(ret.tok, now)
        /\ ret.res = "ok" =>
            /\ ret.uid = TokenClaims(ret.tok, now).UserID
            /\ ret.email = TokenClaims(ret.tok, now).Email
            /\ ret.role = TokenClaims(ret.tok, now).Role
        /\ (ret.tok.type = "refresh" /\ ValidateToken(ret.tok, now)) =>
            /\ ret.res = "ok"
            /\ ret.uid = AccessOf(ret.tok).uid
            /\ ret.email = AccessOf(ret.tok).email
            /\ ret.role = AccessOf(ret.tok).role

\* AuthMiddleware has admitted a refresh token as bearer token, at a time at
\* which the access token issued with it has expired.
C28_Witness ==
    /\ BearerAnswered /\ ret.res = "ok"
    /\ ret.tok.type = "refresh" /\ ret.tok \in hist.handed
    /\ ~ValidateToken(AccessOf(ret.tok), now)
    /\ ret.uid = ret.tok.uid

-----------------------------------------------------------------------------
(* Sessions of an identity *)

\* The refresh-token records of identity uid that are not revoked.
LiveRecordsOf(uid) == {i \in RecordsOf(uid) : ~rts[i].revoked}

\* No call is in flight.
Quiet == \A p \in Procs : ~Busy(p)

\* C26: single session per login: when a Login has returned success and no
\* call is in flight, the identity has exactly one refresh-token record that
\* is not revoked, the record of the token Login returned, also when the
\* Login interleaved with another Login or a Refresh of the identity (stated
\* for the runs in which no store call fails).
C26_SingleSessionPerLogin ==
    (Succeeded("Login") /\ Quiet /\ env.faults = 0) =>
        /\ Cardinality(LiveRecordsOf(ret.usr.id)) = 1
        /\ \A i \in LiveRecordsOf(ret.usr.id) : rts[i].token = ret.out.refresh

-----------------------------------------------------------------------------
(* Token strings *)

\* No two records of the table hold the same token string.
TokensDistinct(tbl) == \A i, j \in DOMAIN tbl : tbl[i].token = tbl[j].token => i = j

\* Handler p makes the step that stores the token it generates: the Create of
\* Signup and Login, or the Create inside the transaction of RefreshToken.
Issues(p) ==
    /\ ctx[p].pc \in {"store", "create"} /\ ctx[p].op \in {"Signup", "Login", "Refresh"}
    /\ ctx'[p] # ctx[p]

\* C27: no two refresh-token records ever hold the same token string: the
\* string generated is determined by the identity's id, email and role and the
\* second of issue, and a Signup, Login or Refresh whose generated string is
\* already in the table returns an error and adds no record.
C27_TokenStringsUnique ==
    [][/\ TokensDistinct(rts) /\ TokensDistinct(rts')
       /\ \A p \in Procs :
            (/\ Issues(p)
             /\ \E i \in RtIds :
                    /\ rts[i].token.type = "refresh"
                    /\ rts[i].token.uid = ctx[p].usr.id
                    /\ rts[i].token.email = ctx[p].usr.email
                    /\ rts[i].token.role = ctx[p].usr.role
                    /\ rts[i].token.iat = now)
                => /\ ret'.op = ctx[p].op /\ ret'.pc = "done"
                   /\ ret'.res \in {"failed to store refresh token",
                                     "failed to store new refresh token"}
                   /\ ret'.out = NoPair
                   /\ rts' = rts]_vars

\* With no store call failing, a Login has been refused at the Create of its
\* record, the string it generated being in the table.
C27_Witness ==
    /\ Answered("Login") /\ ret.res = "failed to store refresh token"
    /\ env.faults = 0
    /\ RtTokenTaken(rts, GenerateRefreshToken(ret.usr.id, ret.usr.email, ret.usr.role, now))

-----------------------------------------------------------------------------
(* Password reset beside a rotation in flight *)

\* A ResetPassword for the identity has returned success.
ResetDone(uid) == \E i \in PrtIds : prts[i].user = uid /\ prts[i].token \in hist.spent

\* C29: once ResetPassword has returned success and every call that was in
\* flight during it has completed, the identity has no refresh-token record
\* that is not revoked, no Login having happened since: a Refresh that read
\* its record before the reset's revoke-all leaves no usable token behind
\* (stated for the runs in which no store call fails).
C29_ResetLeavesNoSession ==
    \A uid \in UserIds :
        (Quiet /\ env.faults = 0 /\ ResetDone(uid)) => LiveRecordsOf(uid) = {}

-----------------------------------------------------------------------------
(* Profile update beside a password change *)

\* Handler p makes the Save of an UpdateProfile.
SavesProfile(p) == ctx[p].op = "UpdateProfile" /\ ctx[p].pc = "saveprofile" /\ ctx'[p] # ctx[p]

\* C30: UpdateProfile never changes an identity's password hash: when it
\* interleaves with a successful ChangePassword or ResetPassword for the
\* identity, its Save leaves the hash in the table as the password
\* operation stored it (stated for the runs in which no store call fails).
C30_UpdateProfileKeepsHash ==
    [][\A p \in Procs :
        (SavesProfile(p) /\ env'.faults = 0)
            => \A u \in UserIds : users'[u].password = users[u].password]_vars

====
